---- MODULE Spec2Model ----
(***************************************************************************)
(* Model of codes/models/audio/music/transformer_diffusion14.py:           *)
(* SubBlock, ConcatAttentionBlock, TransformerDiffusion and                *)
(* TransformerDiffusionWithCheaterLatent.                                  *)
(*                                                                         *)
(* Two specifications share the module.  BlockSpec runs one                *)
(* ConcatAttentionBlock.forward statement by statement over symbolic       *)
(* tensors (an axis is the sequence of the labels of its entries).  Spec   *)
(* is the life of one TransformerDiffusionWithCheaterLatent object:        *)
(* construction, train()/eval(), get_debug_values, forward, the backward   *)
(* pass of the training loop and before_step.                              *)
(***************************************************************************)
EXTENDS Integers, Sequences, FiniteSets, TLC

\* ------------------------------------------------------------------ bounds
MaxGroups == 2      \* channel widths are NormGroups * (1..MaxGroups)
MaxSeq == 3         \* longest sequence axis of x
MaxBlkLen == 2      \* longest sequence axis of blk_emb given to a block alone
MaxBatch == 2       \* largest batch
MaxX == 2           \* longest x given to the whole model
MaxPrior == 2       \* longest encoder output (the prior's sequence axis)
MaxStep == 2        \* largest training step reported to get_debug_values
MaxScalings == 2    \* before_step calls followed between two backward passes
NumLayers == 2      \* the num_layers given to the constructor

\* GroupNorm(8, ...) of SubBlock and ConcatAttentionBlock
NormGroups == 8

\* ------------------------------------------------------- symbolic tensors
\* A tensor of shape (b, Len(ch), Len(pos)); ch and pos label the entries of
\* the channel axis (dim 1) and of the sequence axis (dim -1).
Tensor(b, ch, pos) == [ok |-> TRUE, b |-> b, ch |-> ch, pos |-> pos]

\* What a shape error (RuntimeError) leaves: no tensor.
ShapeError == [ok |-> FALSE, b |-> 0, ch |-> <<>>, pos |-> <<>>]

Labels(name, n) == [i \in 1..n |-> <<name, i>>]

\* Python's s[start:] on a sequence, 0 <= start.
DropFirst(s, start) == IF start >= Len(s) THEN <<>> ELSE SubSeq(s, start + 1, Len(s))

\* torch.cat([a, b], dim=-1): every other dimension must agree.
CatSeq(a, b) ==
    IF ~a.ok \/ ~b.ok THEN ShapeError
    ELSE IF a.b # b.b \/ Len(a.ch) # Len(b.ch) THEN ShapeError
    ELSE Tensor(a.b, b.ch, a.pos \o b.pos)

\* torch.cat([a, b], dim=1): every other dimension must agree.
CatChan(a, b) ==
    IF ~a.ok \/ ~b.ok THEN ShapeError
    ELSE IF a.b # b.b \/ Len(a.pos) # Len(b.pos) THEN ShapeError
    ELSE Tensor(a.b, a.ch \o b.ch, b.pos)

\* nn.Conv1d(in_ch, out_ch, k, padding=(k-1)/2): the channel count must be
\* in_ch; the sequence axis is kept.
Conv1d(name, in_ch, out_ch, t) ==
    IF ~t.ok THEN ShapeError
    ELSE IF Len(t.ch) # in_ch THEN ShapeError
    ELSE Tensor(t.b, Labels(name, out_ch), t.pos)

\* nn.GroupNorm(groups, num_channels): shape kept, channel count checked.
GroupNorm(num_channels, t) ==
    IF ~t.ok THEN ShapeError
    ELSE IF Len(t.ch) # num_channels THEN ShapeError
    ELSE t

\* AttentionBlock(channels, out_channels=...): every position attends over the
\* whole sequence; the output has out_channels channels and one entry per
\* input position, in order.
AttentionBlock(channels, out_channels, t) ==
    IF ~t.ok THEN ShapeError
    ELSE IF Len(t.ch) # channels THEN ShapeError
    ELSE Tensor(t.b, Labels("attn", out_channels), t.pos)

\* --------------------------------------------------------------- SubBlock
SubBlockNew(inp_dim, contraction_dim, blk_dim) ==
    [inp_dim |-> inp_dim, contraction_dim |-> contraction_dim, blk_dim |-> blk_dim]

\* Mutant of StripPrefix: ah[:,:,1:], right only for a block embedding of length 1.
StripPrefixOne(ah, blk_emb) ==
    IF ~ah.ok \/ ~blk_emb.ok THEN ShapeError
    ELSE Tensor(ah.b, ah.ch, DropFirst(ah.pos, 1))

\* ah = ah[:,:,blk_emb.shape[-1]:]

StripPrefix(ah, blk_emb) ==
    IF ~ah.ok \/ ~blk_emb.ok THEN ShapeError
    ELSE Tensor(ah.b, ah.ch, DropFirst(ah.pos, Len(blk_emb.pos)))

\* SubBlock.forward with its intermediate values.
SubBlockTrace(self, x, blk_emb) ==
    LET blk_enc == Conv1d("blk_enc", self.blk_dim, self.inp_dim, blk_emb)
        joined == CatSeq(blk_enc, x)
        attn == AttentionBlock(self.inp_dim, self.contraction_dim, joined)
        ah == GroupNorm(self.contraction_dim, StripPrefix(attn, blk_emb))
        h1 == CatChan(ah, x)
        hf == GroupNorm(self.contraction_dim,
                        Conv1d("ff", self.inp_dim + self.contraction_dim,
                               self.contraction_dim, h1))
        h2 == CatChan(h1, hf)
    IN [x |-> x, blk_emb |-> blk_emb, self |-> self,
        joined |-> joined, ah |-> ah, ret |-> h2]

SubBlockForward(self, x, blk_emb) == SubBlockTrace(self, x, blk_emb).ret

\* --------------------------------------------------- ConcatAttentionBlock
ConcatAttentionBlockNew(trunk_dim, contraction_dim) ==
    [trunk_dim |-> trunk_dim,
     contraction_dim |-> contraction_dim,
     block1 |-> SubBlockNew(trunk_dim, contraction_dim, trunk_dim),
     block2 |-> SubBlockNew(trunk_dim + contraction_dim * 2, contraction_dim, trunk_dim),
     out_in |-> contraction_dim * 4]

\* Mutant of SliceAfterX: h[:,:x.shape[1]].
SliceAfterXKeepFirst(h, x) ==
    IF ~h.ok \/ ~x.ok THEN ShapeError
    ELSE Tensor(h.b, SubSeq(h.ch, 1, Len(x.ch)), h.pos)

\* h[:,x.shape[1]:]
SliceAfterX(h, x) ==
    IF ~h.ok \/ ~x.ok THEN ShapeError
    ELSE Tensor(h.b, DropFirst(h.ch, Len(x.ch)), h.pos)

\* h + x: equal shapes (no dimension of either is 1 here unless both are).
Residual(h, x) ==
    IF ~h.ok \/ ~x.ok THEN ShapeError
    ELSE IF h.b # x.b \/ Len(h.ch) # Len(x.ch) \/ Len(h.pos) # Len(x.pos) THEN ShapeError
    ELSE Tensor(x.b, x.ch, x.pos)

ConcatAttentionBlockForward(self, x, blk_emb) ==
    LET h0 == GroupNorm(self.trunk_dim, x)
        h1 == SubBlockForward(self.block1, h0, blk_emb)
        h2 == SubBlockForward(self.block2, h1, blk_emb)
        h3 == Conv1d("blkout", self.out_in, self.trunk_dim, SliceAfterX(h2, x))
    IN Residual(h3, x)

\* ------------------------------------------------- tensors with contents
\* CT(shape, at): a tensor of shape <<b, c, t>> whose entry at index i is the
\* symbolic value at[i].
Indices(shape) == (1..shape[1]) \X (1..shape[2]) \X (1..shape[3])

CT(shape, at) == [shape |-> shape, at |-> at]

\* Index of the entry of a tensor of this shape that broadcasting pairs with i.
BroadcastIndex(i, shape) == [k \in 1..3 |-> IF shape[k] = 1 THEN 1 ELSE i[k]]

Max(a, b) == IF a >= b THEN a ELSE b

\* torch.where(cond, a, b), the three broadcast to one shape.
Where(cond, a, b) ==
    LET shape == [k \in 1..3 |-> Max(cond.shape[k], Max(a.shape[k], b.shape[k]))]
    IN CT(shape, [i \in Indices(shape) |->
                    IF cond.at[BroadcastIndex(i, cond.shape)]
                    THEN a.at[BroadcastIndex(i, a.shape)]
                    ELSE b.at[BroadcastIndex(i, b.shape)]])

\* t.repeat(r1, r2, r3): the tensor tiled r_k times along dimension k.
Repeat(t, r) ==
    LET shape == [k \in 1..3 |-> t.shape[k] * r[k]]
    IN CT(shape, [i \in Indices(shape) |->
                    t.at[[k \in 1..3 |-> ((i[k] - 1) % t.shape[k]) + 1]]])

\* F.interpolate(t, size=size, mode='nearest'): output position j (from 0)
\* reads input position floor(j * in / out).
Interpolate(t, size) ==
    LET shape == <<t.shape[1], t.shape[2], size>>
    IN CT(shape, [i \in Indices(shape) |->
                    t.at[<<i[1], i[2], (((i[3] - 1) * t.shape[3]) \div size) + 1>>]])

\* ------------------------------------------------------------ parameters
None == <<>>
Some(v) == <<v>>

Param(owner, layer, mod, name) ==
    [owner |-> owner, layer |-> layer, mod |-> mod, name |-> name]

\* The parameters of one sub-module: weight and bias, except the bias-free
\* block output projection and the bare nn.Parameter.
ModuleParameters(owner, layer, mod) ==
    IF (owner = "layer" /\ mod = "out") \/ mod = "unconditioned_embedding"
    THEN {Param(owner, layer, mod, "weight")}
    ELSE {Param(owner, layer, mod, "weight"), Param(owner, layer, mod, "bias")}

LayerModules ==
    {"prenorm", "out"}
       \cup {"block1.blk_emb_proj", "block1.attn", "block1.attnorm", "block1.ff", "block1.ffnorm"}
       \cup {"block2.blk_emb_proj", "block2.attn", "block2.attnorm", "block2.ff", "block2.ffnorm"}

LayerParameters(l) == UNION {ModuleParameters("layer", l, m) : m \in LayerModules}

DiffModules ==
    {"inp_block", "time_embed", "input_converter", "unconditioned_embedding", "intg", "out"}

\* Attributes TransformerDiffusion.__init__ has assigned when it reaches the
\* freeze_except_code_converters branch.
DiffAttributes ==
    DiffModules \cup {"layers", "in_channels", "model_channels", "time_embed_dim",
                      "out_channels", "dropout", "unconditioned_percentage",
                      "enable_fp16", "new_code_expansion", "use_corner_alignment"}

DiffParameters ==
    UNION {ModuleParameters("diff", 0, m) : m \in DiffModules}
       \cup UNION {LayerParameters(l) : l \in 1..NumLayers}

EncoderParameters == ModuleParameters("encoder", 0, "encoder")

UnconditionedEmbeddingParam == Param("diff", 0, "unconditioned_embedding", "weight")

\* --------------------------------------------------- TransformerDiffusion
\* The constructor's widths: the smallest ones GroupNorm(8, .) accepts.
ModelChannels == NormGroups
ContractionDim == NormGroups
InChannels == NormGroups
OutChannels == 2 * InChannels

\* unconditioned_percentage=.1, in hundredths
DefaultUnconditionedPercentage == 10

\* Values of unconditioned_percentage and of torch.rand, in hundredths.
Percentages == {0 - DefaultUnconditionedPercentage, 0, DefaultUnconditionedPercentage}
RandSamples == {0, DefaultUnconditionedPercentage - 1, DefaultUnconditionedPercentage}

\* Contents of the conditioning input: two different recordings.
TruthMels == {"melA", "melB"}

Entry(src, mel, b, c, t) == [src |-> src, mel |-> mel, b |-> b, c |-> c, t |-> t]

\* self.unconditioned_embedding = nn.Parameter(torch.randn(1,model_channels,1))
UnconditionedEmbedding ==
    CT(<<1, ModelChannels, 1>>,
       [i \in Indices(<<1, ModelChannels, 1>>) |-> Entry("uncond", "", 1, i[2], 1)])

\* self.input_converter(prior), a kernel-size-1 convolution: entry (b, c, t)
\* is computed from position t of element b of the prior.
InputConverter(prior) ==
    CT(<<prior.b, ModelChannels, prior.T>>,
       [i \in Indices(<<prior.b, ModelChannels, prior.T>>) |->
           Entry("conv", prior.mel, i[1], i[2], i[3])])

\* Mutant of UnconditionedBatchesShape: one draw per sequence position.
UnconditionedBatchesShapePerPosition(code_emb) == <<code_emb.shape[1], 1, code_emb.shape[3]>>

\* The shape given to torch.rand: (code_emb.shape[0], 1, 1)
UnconditionedBatchesShape(code_emb) == <<code_emb.shape[1], 1, 1>>

\* torch.rand(...) < self.unconditioned_percentage
UnconditionedBatches(rand, unconditioned_percentage) ==
    CT(rand.shape, [i \in Indices(rand.shape) |-> rand.at[i] < unconditioned_percentage])

\* if self.training and self.unconditioned_percentage > 0
DropoutActive(training, unconditioned_percentage) ==
    training /\ unconditioned_percentage > 0

\* The else branch of `if conditioning_free`.
ConditionedBranch(x, prior, training, unconditioned_percentage, rand) ==
    LET code_emb == InputConverter(prior)
        masked == IF DropoutActive(training, unconditioned_percentage)
                  THEN Where(UnconditionedBatches(rand, unconditioned_percentage),
                             Repeat(UnconditionedEmbedding, <<x.b, 1, 1>>),
                             code_emb)
                  ELSE code_emb
    IN Interpolate(masked, Len(x.pos))

\* self.unconditioned_embedding.repeat(x.shape[0], 1, x.shape[-1])
UnconditionedBranch(x) == Repeat(UnconditionedEmbedding, <<x.b, 1, Len(x.pos)>>)

\* Mutant of CodeEmb: the flag is not looked at.
CodeEmbIgnoringFlag(x, prior, conditioning_free, training, unconditioned_percentage, rand) ==
    ConditionedBranch(x, prior, training, unconditioned_percentage, rand)

\* code_emb as TransformerDiffusion.forward hands it to the trunk.
CodeEmb(x, prior, conditioning_free, training, unconditioned_percentage, rand) ==
    IF conditioning_free
    THEN UnconditionedBranch(x)
    ELSE ConditionedBranch(x, prior, training, unconditioned_percentage, rand)

\* The parameters code_emb is computed from, given those of the prior.
CodeEmbGraph(prior_graph, conditioning_free, training, unconditioned_percentage) ==
    IF conditioning_free
    THEN {UnconditionedEmbeddingParam}
    ELSE ModuleParameters("diff", 0, "input_converter") \cup prior_graph
           \cup (IF DropoutActive(training, unconditioned_percentage)
                 THEN {UnconditionedEmbeddingParam} ELSE {})

\* The arguments of forward code_emb is computed from.
CodeEmbInputs(conditioning_free) == IF conditioning_free THEN {} ELSE {"prior"}

\* Mutant of UnusedParams: the defensive addition left out.
UnusedParamsNone == {}

\* unused_params = [self.unconditioned_embedding], each added as p.mean() * 0
UnusedParams == {UnconditionedEmbeddingParam}

\* The parameters of time_embed, inp_block, intg, the layers and out.
TrunkParameters ==
    UNION {ModuleParameters("diff", 0, m) : m \in {"time_embed", "inp_block", "intg", "out"}}
       \cup UNION {LayerParameters(l) : l \in 1..NumLayers}

ShapeOf(ct, name) ==
    Tensor(ct.shape[1], Labels(name, ct.shape[2]), Labels("x", ct.shape[3]))

RECURSIVE RunLayers(_, _, _)
\* for layer in self.layers: x = checkpoint(layer, x, blk_emb)
RunLayers(x, blk_emb, n) ==
    IF n = 0 THEN x
    ELSE ConcatAttentionBlockForward(ConcatAttentionBlockNew(ModelChannels, ContractionDim),
                                     RunLayers(x, blk_emb, n - 1), blk_emb)

\* Shape of the value returned by TransformerDiffusion.forward.
TrunkForward(x, code_emb) ==
    LET blk_emb == Tensor(x.b, Labels("blk", ModelChannels), Labels("blk", 1))
        x1 == Conv1d("inp_block", InChannels, ModelChannels, x)
        x2 == Conv1d("intg", ModelChannels * 2, ModelChannels,
                     CatChan(x1, ShapeOf(code_emb, "code")))
        x3 == RunLayers(x2, blk_emb, NumLayers)
    IN Conv1d("out", ModelChannels, OutChannels, GroupNorm(ModelChannels, x3))

\* TransformerDiffusion.forward: what the output is computed from.
DiffForward(x, prior, prior_graph, conditioning_free, training, unconditioned_percentage, rand) ==
    LET code_emb == CodeEmb(x, prior, conditioning_free, training,
                            unconditioned_percentage, rand)
    IN [code_emb |-> code_emb,
        out |-> TrunkForward(x, code_emb),
        graph |-> CodeEmbGraph(prior_graph, conditioning_free, training,
                               unconditioned_percentage)
                    \cup TrunkParameters \cup UnusedParams,
        inputs |-> {"x", "timesteps"} \cup CodeEmbInputs(conditioning_free)]

\* ---------------------------------- TransformerDiffusionWithCheaterLatent
\* Mutant of EncoderGradEnabled: the encoder thaws at step == freeze_encoder_until.
EncoderGradEnabledFromStep(freeze_encoder_until, internal_step) ==
    freeze_encoder_until # None /\ internal_step >= freeze_encoder_until[1]

\* self.freeze_encoder_until is not None and self.internal_step > self.freeze_encoder_until
EncoderGradEnabled(freeze_encoder_until, internal_step) ==
    freeze_encoder_until # None /\ internal_step > freeze_encoder_until[1]

\* proj after `for p in unused_parameters: proj = proj + p.mean() * 0`: the
\* encoder's output and the parameters on its autograd graph.
Proj(truth_mel, encoder_grad_enabled) ==
    LET unused_parameters == IF ~encoder_grad_enabled THEN EncoderParameters ELSE {}
    IN [prior |-> [mel |-> truth_mel.mel, b |-> truth_mel.b, T |-> truth_mel.T],
        graph |-> (IF encoder_grad_enabled THEN EncoderParameters ELSE {})
                     \cup unused_parameters]

\* TransformerDiffusionWithCheaterLatent.forward
CheaterForward(x, truth_mel, conditioning_free, freeze_encoder_until, internal_step, training, unconditioned_percentage, rand) ==
    LET encoder_grad_enabled == EncoderGradEnabled(freeze_encoder_until, internal_step)
        proj == Proj(truth_mel, encoder_grad_enabled)
        diff == DiffForward(x, proj.prior, proj.graph, conditioning_free, training,
                            unconditioned_percentage, rand)
    IN [op |-> "forward",
        conditioning_free |-> conditioning_free,
        x |-> x,
        encoder_grad_enabled |-> encoder_grad_enabled,
        code_emb |-> diff.code_emb,
        out |-> diff.out,
        graph |-> diff.graph,
        inputs |-> (diff.inputs \ {"prior"})
                      \cup (IF "prior" \in diff.inputs THEN {"truth_mel"} ELSE {})]

\* p.grad *= .2
ScaleGrad(g) == (g * 2) \div 10

\* Mutant of ScaledGradParameters: the feed-forward layers as well.
ScaledGradParametersWithFF ==
    UNION {ModuleParameters("layer", l, m) :
             l \in 1..NumLayers, m \in {"out", "prenorm", "block1.ff", "block2.ff"}}

\* scaled_grad_parameters of before_step
ScaledGradParameters ==
    UNION {ModuleParameters("layer", l, "out") : l \in 1..NumLayers}
       \cup UNION {ModuleParameters("layer", l, "prenorm") : l \in 1..NumLayers}

\* `self.code_converter and self.input_converter`: reading an attribute the
\* module never set raises AttributeError.
FreezeTargets ==
    IF "code_converter" \in DiffAttributes
    THEN [ok |-> TRUE, mods |-> {"input_converter"}]
    ELSE [ok |-> FALSE, mods |-> {}]

\* The freeze_except_code_converters branch that ends __init__: requires_grad
\* and DO_NOT_TRAIN of the parameters, and whether __init__ returned.
DiffInit(freeze) ==
    IF ~freeze
    THEN [ok |-> TRUE, requires_grad |-> DiffParameters, DO_NOT_TRAIN |-> {}]
    ELSE IF ~FreezeTargets.ok
    THEN [ok |-> FALSE, requires_grad |-> {}, DO_NOT_TRAIN |-> DiffParameters]
    ELSE LET thawed == UNION {ModuleParameters("diff", 0, m) : m \in FreezeTargets.mods}
         IN [ok |-> TRUE, requires_grad |-> thawed,
             DO_NOT_TRAIN |-> DiffParameters \ thawed]

\* Value a parameter is built with: 0 for the zeroed output projections.
InitialData(p) == IF p.mod = "out" /\ p.name = "weight" THEN 0 ELSE 1

RECURSIVE Pow(_, _)
Pow(a, n) == IF n = 0 THEN 1 ELSE a * Pow(a, n - 1)

\* Gradients a backward pass leaves: multiples of 5^MaxScalings, so that the
\* scalings followed are exact.
GradValues == {Pow(5, MaxScalings), 0 - 2 * Pow(5, MaxScalings)}

NoneRet == [op |-> "none"]

\* ------------------------------------------------------------------ state
VARIABLES
    b_pc,       \* statement of ConcatAttentionBlock.forward to run next
    b_self,     \* the block
    b_x,        \* its argument x
    b_emb,      \* its argument blk_emb
    b_h,        \* its local h
    b_sub,      \* the SubBlock.forward calls made so far, in order
    b_sliced    \* the tensor handed to self.out

bvars == <<b_pc, b_self, b_x, b_emb, b_h, b_sub, b_sliced>>

VARIABLES
    pc,                             \* "new", "ready", "returned" (the caller holds
                                    \* forward's output), or "error": __init__ raised
    freeze_except_code_converters,  \* constructor argument
    unconditioned_percentage,       \* diff.unconditioned_percentage, in hundredths
    freeze_encoder_until,           \* None or Some(step)
    training,                       \* nn.Module.training
    internal_step,
    params,                         \* the parameters that exist
    requires_grad,                  \* those with requires_grad = True
    DO_NOT_TRAIN,                   \* those carrying the attribute DO_NOT_TRAIN = True
    grad,                           \* p.grad: None or Some(value)
    data,                           \* p.data
    ret,                            \* the output of forward the caller holds
    reported_step,                  \* history: step of the last get_debug_values call
    grad_base,                      \* history: grad as the last backward pass left it
    scalings                        \* history: before_step calls since then

mvars == <<pc, freeze_except_code_converters, unconditioned_percentage,
           freeze_encoder_until, training, internal_step, params, requires_grad,
           DO_NOT_TRAIN, grad, data, ret, reported_step, grad_base, scalings>>

vars == <<bvars, mvars>>

\* No object under construction: the block is studied alone.
ModelUnused ==
    /\ pc = "unused"
    /\ freeze_except_code_converters = FALSE
    /\ unconditioned_percentage = DefaultUnconditionedPercentage
    /\ freeze_encoder_until = None
    /\ training = TRUE
    /\ internal_step = 0
    /\ params = {}
    /\ requires_grad = {}
    /\ DO_NOT_TRAIN = {}
    /\ grad = <<>>
    /\ data = <<>>
    /\ ret = NoneRet
    /\ reported_step = 0
    /\ grad_base = <<>>
    /\ scalings = 0

\* No block run on its own: the model object is studied.
BlockUnused ==
    /\ b_pc = "unused"
    /\ b_self = ConcatAttentionBlockNew(ModelChannels, ContractionDim)
    /\ b_x = ShapeError
    /\ b_emb = ShapeError
    /\ b_h = ShapeError
    /\ b_sub = <<>>
    /\ b_sliced = ShapeError

Widths == {NormGroups * g : g \in 1..MaxGroups}

BlockStart ==
    /\ ModelUnused
    /\ b_pc = "prenorm"
    /\ \E trunk_dim \in Widths, contraction_dim \in Widths :
          b_self = ConcatAttentionBlockNew(trunk_dim, contraction_dim)
    /\ \E b \in 1..MaxBatch, L \in 1..MaxSeq :
          b_x = Tensor(b, Labels("x", b_self.trunk_dim), Labels("x", L))
    /\ \E E \in 1..MaxBlkLen :
          b_emb = Tensor(b_x.b, Labels("blk", b_self.trunk_dim), Labels("blk", E))
    /\ b_h = ShapeError
    /\ b_sub = <<>>
    /\ b_sliced = ShapeError

BlockPrenorm ==
    /\ b_pc = "prenorm"
    /\ b_h' = GroupNorm(b_self.trunk_dim, b_x)
    /\ b_pc' = "block1"
    /\ UNCHANGED <<b_self, b_x, b_emb, b_sub, b_sliced, mvars>>

BlockBlock1 ==
    /\ b_pc = "block1"
    /\ b_h' = SubBlockForward(b_self.block1, b_h, b_emb)
    /\ b_sub' = Append(b_sub, SubBlockTrace(b_self.block1, b_h, b_emb))
    /\ b_pc' = "block2"
    /\ UNCHANGED <<b_self, b_x, b_emb, b_sliced, mvars>>

BlockBlock2 ==
    /\ b_pc = "block2"
    /\ b_h' = SubBlockForward(b_self.block2, b_h, b_emb)
    /\ b_sub' = Append(b_sub, SubBlockTrace(b_self.block2, b_h, b_emb))
    /\ b_pc' = "out"
    /\ UNCHANGED <<b_self, b_x, b_emb, b_sliced, mvars>>

BlockOut ==
    /\ b_pc = "out"
    /\ b_sliced' = SliceAfterX(b_h, b_x)
    /\ b_h' = Conv1d("blkout", b_self.out_in, b_self.trunk_dim, SliceAfterX(b_h, b_x))
    /\ b_pc' = "add"
    /\ UNCHANGED <<b_self, b_x, b_emb, b_sub, mvars>>

BlockAdd ==
    /\ b_pc = "add"
    /\ b_h' = Residual(b_h, b_x)
    /\ b_pc' = "done"
    /\ UNCHANGED <<b_self, b_x, b_emb, b_sub, b_sliced, mvars>>

BlockNext == BlockPrenorm \/ BlockBlock1 \/ BlockBlock2 \/ BlockOut \/ BlockAdd

BlockSpec == BlockStart /\ [][BlockNext]_vars

\* ------------------------------------------------------- the model object
\* The call TransformerDiffusionWithCheaterLatent(freeze_encoder_until=...,
\* unconditioned_percentage=..., freeze_except_code_converters=...) about to run.
Init ==
    /\ BlockUnused
    /\ pc = "new"
    /\ freeze_except_code_converters \in BOOLEAN
    /\ unconditioned_percentage \in Percentages
    /\ freeze_encoder_until \in {None} \cup {Some(n) : n \in 0..(MaxStep - 1)}
    /\ training = TRUE
    /\ internal_step = 0
    /\ params = {}
    /\ requires_grad = {}
    /\ DO_NOT_TRAIN = {}
    /\ grad = <<>>
    /\ data = <<>>
    /\ ret = NoneRet
    /\ reported_step = 0
    /\ grad_base = <<>>
    /\ scalings = 0

\* __init__ of the wrapper: internal_step = 0, then TransformerDiffusion(**kwargs),
\* then the encoder.  When TransformerDiffusion.__init__ raises, no object exists.
Construct ==
    /\ pc = "new"
    /\ LET diff == DiffInit(freeze_except_code_converters)
           made == IF diff.ok THEN DiffParameters \cup EncoderParameters ELSE DiffParameters
       IN /\ pc' = IF diff.ok THEN "ready" ELSE "error"
          /\ params' = made
          /\ requires_grad' = diff.requires_grad
                                \cup (IF diff.ok THEN EncoderParameters ELSE {})
          /\ DO_NOT_TRAIN' = diff.DO_NOT_TRAIN
          /\ grad' = [p \in made |-> None]
          /\ grad_base' = [p \in made |-> None]
          /\ data' = [p \in made |-> InitialData(p)]
    /\ internal_step' = 0
    /\ training' = TRUE
    /\ ret' = NoneRet
    /\ UNCHANGED <<freeze_except_code_converters, unconditioned_percentage,
                   freeze_encoder_until, reported_step, scalings, bvars>>

\* model.train() / model.eval()
SetTraining(mode) ==
    /\ pc = "ready"
    /\ training' = mode
    /\ UNCHANGED <<pc, freeze_except_code_converters, unconditioned_percentage,
                   freeze_encoder_until, internal_step, params, requires_grad,
                   DO_NOT_TRAIN, grad, data, ret, reported_step, grad_base, scalings,
                   bvars>>

Train == SetTraining(TRUE)

Eval == SetTraining(FALSE)

GetDebugValues(step) ==
    /\ pc = "ready"
    /\ internal_step' = step
    /\ reported_step' = step
    /\ UNCHANGED <<pc, freeze_except_code_converters, unconditioned_percentage,
                   freeze_encoder_until, training, params, requires_grad,
                   DO_NOT_TRAIN, grad, data, ret, grad_base, scalings, bvars>>

\* The draws of torch.rand when forward reaches it, one fixed tensor otherwise.
RandDraws(truth_mel, conditioning_free) ==
    LET shape == UnconditionedBatchesShape(InputConverter(truth_mel))
    IN IF ~conditioning_free /\ DropoutActive(training, unconditioned_percentage)
       THEN {CT(shape, at) : at \in [Indices(shape) -> RandSamples]}
       ELSE {CT(shape, [i \in Indices(shape) |-> 0])}

Forward(x, truth_mel, conditioning_free) ==
    /\ pc = "ready"
    /\ pc' = "returned"
    /\ \E rand \in RandDraws(truth_mel, conditioning_free) :
          ret' = CheaterForward(x, truth_mel, conditioning_free, freeze_encoder_until,
                                internal_step, training, unconditioned_percentage, rand)
    /\ UNCHANGED <<freeze_except_code_converters, unconditioned_percentage,
                   freeze_encoder_until, training, internal_step, params,
                   requires_grad, DO_NOT_TRAIN, grad, data, reported_step,
                   grad_base, scalings, bvars>>

\* The caller is done with the output (o = model(...) is bound again).
Discard ==
    /\ pc = "returned"
    /\ pc' = "ready"
    /\ ret' = NoneRet
    /\ UNCHANGED <<freeze_except_code_converters, unconditioned_percentage,
                   freeze_encoder_until, training, internal_step, params,
                   requires_grad, DO_NOT_TRAIN, grad, data, reported_step,
                   grad_base, scalings, bvars>>

\* The training loop's zero_grad() and backward() on the output just returned:
\* every parameter on its graph that requires grad receives a gradient.
Backward(g) ==
    /\ pc = "returned"
    /\ pc' = "ready"
    /\ grad' = [p \in params |->
                  IF p \in ret.graph /\ p \in requires_grad THEN Some(g) ELSE None]
    /\ grad_base' = grad'
    /\ scalings' = 0
    /\ ret' = NoneRet
    /\ UNCHANGED <<freeze_except_code_converters, unconditioned_percentage,
                   freeze_encoder_until, training, internal_step, params,
                   requires_grad, DO_NOT_TRAIN, data, reported_step, bvars>>

BeforeStep(step) ==
    /\ pc = "ready"
    /\ scalings < MaxScalings
    /\ grad' = [p \in params |->
                  IF p \in ScaledGradParameters /\ grad[p] # None
                  THEN Some(ScaleGrad(grad[p][1]))
                  ELSE grad[p]]
    /\ scalings' = scalings + 1
    /\ UNCHANGED <<pc, freeze_except_code_converters, unconditioned_percentage,
                   freeze_encoder_until, training, internal_step, params,
                   requires_grad, DO_NOT_TRAIN, data, ret, reported_step, grad_base,
                   bvars>>

\* The arguments forward is called with: x of shape (b, in_channels, T) and a
\* truth_mel of the same batch whose encoding has length T'.
ForwardArgs ==
    {<<Tensor(b, Labels("x", InChannels), Labels("x", T)), [mel |-> m, b |-> b, T |-> Tp]>> :
        b \in 1..MaxBatch, T \in 1..MaxX, m \in TruthMels, Tp \in 1..MaxPrior}

\* The smallest of them: what a backward pass leaves does not depend on shapes.
SmallestForwardArgs ==
    {<<Tensor(1, Labels("x", InChannels), Labels("x", 1)), [mel |-> m, b |-> 1, T |-> 1]>> :
        m \in TruthMels}

\* The truth_mel arguments that go with x.
MelInputs(x) == {a[2] : a \in {c \in ForwardArgs : c[1] = x}}

ForwardCall(args) ==
    \E a \in args : \E conditioning_free \in BOOLEAN : Forward(a[1], a[2], conditioning_free)

ModelCall ==
    \/ Construct
    \/ Train
    \/ Eval
    \/ \E step \in 0..MaxStep : GetDebugValues(step)
    \/ Discard

\* The model used without a backward pass (sampling, the file's own tests).
Next == ModelCall \/ ForwardCall(ForwardArgs)

Spec == Init /\ [][Next]_vars

\* The training loop: forward, backward, before_step.
TrainNext ==
    \/ ModelCall
    \/ ForwardCall(SmallestForwardArgs)
    \/ \E g \in GradValues : Backward(g)
    \/ \E step \in 0..MaxStep : BeforeStep(step)

TrainSpec == Init /\ [][TrainNext]_vars

\* ------------------------------------------------------------ properties
\* Every entry of batch element b is the unconditioned embedding's.
ElementReplaced(code_emb, b) ==
    \A i \in Indices(code_emb.shape) :
        i[1] = b => code_emb.at[i] = Entry("uncond", "", 1, i[2], 1)

\* Every entry of batch element b is input_converter(prior)'s for element b.
ElementConditioned(code_emb, b) ==
    \E m \in TruthMels :
        \A i \in Indices(code_emb.shape) :
            i[1] = b => /\ code_emb.at[i].src = "conv"
                        /\ code_emb.at[i].mel = m
                        /\ code_emb.at[i].b = b
                        /\ code_emb.at[i].c = i[2]

\* C1: with conditioning_free=False, every batch element of the code embedding
\* handed to the trunk is wholly input_converter(prior) of that element or
\* wholly the unconditioned embedding, and an element is replaced only in
\* training mode with unconditioned_percentage > 0.
C1_WholeElementDropout ==
    (pc = "returned" /\ ~ret.conditioning_free) =>
        /\ ret.code_emb.shape = <<ret.x.b, ModelChannels, Len(ret.x.pos)>>
        /\ \A b \in 1..ret.x.b :
              ElementReplaced(ret.code_emb, b) \/ ElementConditioned(ret.code_emb, b)
        /\ (\E b \in 1..ret.x.b : ElementReplaced(ret.code_emb, b))
              => (training /\ unconditioned_percentage > 0)

\* A batch with one element replaced and one kept, longer than one position.
C1_Witness ==
    /\ pc = "returned"
    /\ ~ret.conditioning_free
    /\ Len(ret.x.pos) >= 2
    /\ \E b1, b2 \in 1..ret.x.b :
          /\ ElementReplaced(ret.code_emb, b1)
          /\ ElementConditioned(ret.code_emb, b2)
          /\ \E i, j \in Indices(ret.code_emb.shape) :
                i[1] = b2 /\ j[1] = b2 /\ ret.code_emb.at[i].t # ret.code_emb.at[j].t

\* C3: whatever conditioning_free, the mode and the dropout draws, the
\* unconditioned_embedding parameter is among the parameters the returned
\* output is computed from.
C3_UnconditionedEmbeddingUsed ==
    pc = "returned" => UnconditionedEmbeddingParam \in ret.graph

\* A conditioned call in eval mode: the code embedding does not use the parameter.
C3_Witness ==
    /\ pc = "returned"
    /\ ~ret.conditioning_free
    /\ ~training
    /\ \A b \in 1..ret.x.b : ElementConditioned(ret.code_emb, b)

\* C4: when the encoder ran with gradients disabled, every encoder parameter
\* is among the parameters the returned output is computed from, for either
\* value of conditioning_free.
C4_EncoderParametersUsed ==
    (pc = "returned" /\ ~ret.encoder_grad_enabled) => EncoderParameters \subseteq ret.graph

\* C5: k calls of before_step since the last backward pass have multiplied by
\* 0.2^k the gradient of every out and prenorm parameter of every layer that
\* has one, and left alone every other gradient (None included), every
\* parameter value and internal_step.
C5_BeforeStepScalesOnlyBlockOutAndPrenorm ==
    pc \in {"ready", "returned"} =>
        /\ \A p \in params :
              IF p.owner = "layer" /\ p.mod \in {"out", "prenorm"} /\ grad_base[p] # None
              THEN /\ grad[p] # None
                   /\ grad[p][1] * Pow(5, scalings) = grad_base[p][1]
              ELSE grad[p] = grad_base[p]
        /\ \A p \in params : data[p] = InitialData(p)
        /\ internal_step = reported_step

\* Two calls after a backward pass that gave every kind of parameter a gradient.
C5_Witness ==
    /\ pc = "ready"
    /\ internal_step > 0
    /\ scalings >= 2
    /\ \E p, q \in params :
          /\ p.owner = "layer" /\ p.mod = "prenorm" /\ grad[p] # None
          /\ q.owner = "layer" /\ q.mod = "block1.ff" /\ grad[q] # None
          /\ grad[p] # grad[q]
    /\ \E p \in params : p.owner = "layer" /\ p.mod = "out" /\ grad[p] # None
    /\ \E p \in params : grad[p] = None

\* C6: a forward call runs the encoder with gradients enabled exactly when
\* freeze_encoder_until is not None and the step last given to
\* get_debug_values (0 if none) is strictly greater; nothing but
\* get_debug_values changes internal_step.
C6_EncoderFrozenUntil ==
    /\ pc \in {"ready", "returned"} => internal_step = reported_step
    /\ pc = "returned" =>
          (ret.encoder_grad_enabled <=>
              (freeze_encoder_until # None /\ reported_step > freeze_encoder_until[1]))

\* A forward call at step == freeze_encoder_until, after a before_step.
C6_Witness ==
    /\ pc = "returned"
    /\ freeze_encoder_until # None
    /\ reported_step > 0
    /\ reported_step = freeze_encoder_until[1]
    /\ scalings > 0
    /\ ~ret.encoder_grad_enabled

\* C7: construction with freeze_except_code_converters=True completes, and
\* leaves exactly the input_converter parameters trainable.
C7_FreezeExceptCodeConverters ==
    (pc # "new" /\ freeze_except_code_converters) =>
        /\ pc # "error"
        /\ \A p \in params :
              IF p.owner = "diff" /\ p.mod = "input_converter"
              THEN p \in requires_grad /\ p \notin DO_NOT_TRAIN
              ELSE p \notin requires_grad /\ p \in DO_NOT_TRAIN

\* C8: with conditioning_free=True the code embedding is the unconditioned
\* embedding repeated to x's batch size and length, and the call with any
\* other truth_mel, in the same state, returns the same thing.
C8_ConditioningFreeIgnoresPrior ==
    (pc = "returned" /\ ret.conditioning_free) =>
        /\ ret.code_emb.shape = <<ret.x.b, ModelChannels, Len(ret.x.pos)>>
        /\ \A i \in Indices(ret.code_emb.shape) :
              ret.code_emb.at[i] = Entry("uncond", "", 1, i[2], 1)
        /\ "truth_mel" \notin ret.inputs
        /\ \A truth_mel \in MelInputs(ret.x) :
              \A rand \in RandDraws(truth_mel, TRUE) :
                  CheaterForward(ret.x, truth_mel, TRUE, freeze_encoder_until,
                                 internal_step, training, unconditioned_percentage,
                                 rand) = ret

\* A conditioning-free call on a batch of two, longer than one position.
C8_Witness ==
    /\ pc = "returned"
    /\ ret.conditioning_free
    /\ ret.x.b >= 2
    /\ Len(ret.x.pos) >= 2
    /\ ret.out.ok

\* C2: in every SubBlock.forward call the block embedding is put in front of
\* x, the attention output kept has x's length with position i of it being
\* position i of x, and the result has x's length and
\* inp_dim + 2*contraction_dim channels.
C2_PrefixStripRealigns ==
    \A k \in 1..Len(b_sub) :
        LET s == b_sub[k]
            L == Len(s.x.pos)
            E == Len(s.blk_emb.pos)
        IN /\ s.joined.ok
           /\ Len(s.joined.pos) = E + L
           /\ \A i \in 1..E : s.joined.pos[i] = s.blk_emb.pos[i]
           /\ \A i \in 1..L : s.joined.pos[E + i] = s.x.pos[i]
           /\ s.ah.ok
           /\ Len(s.ah.pos) = L
           /\ \A i \in 1..L : s.ah.pos[i] = s.x.pos[i]
           /\ s.ret.ok
           /\ s.ret.b = s.x.b
           /\ Len(s.ret.pos) = L
           /\ Len(s.ret.ch) = s.self.inp_dim + 2 * s.self.contraction_dim

\* Both sub-blocks have run on a block embedding and an x longer than one.
C2_Witness ==
    /\ Len(b_sub) = 2
    /\ Len(b_emb.pos) >= 2
    /\ Len(b_x.pos) >= 2
    /\ b_sub[2].ret.ok

\* C9: block1 returns trunk_dim + 2*contraction_dim channels, the width
\* block2 was built for; block2 returns trunk_dim + 4*contraction_dim; the
\* slice given to out has the 4*contraction_dim channels out was built for;
\* and the result has x's channel count and length, so h + x adds equal shapes.
C9_ShapeBookkeeping ==
    /\ Len(b_sub) >= 1 =>
          /\ b_sub[1].ret.ok
          /\ Len(b_sub[1].ret.ch) = b_self.trunk_dim + 2 * b_self.contraction_dim
          /\ Len(b_sub[1].ret.ch) = b_self.block2.inp_dim
    /\ Len(b_sub) >= 2 =>
          /\ b_sub[2].ret.ok
          /\ Len(b_sub[2].ret.ch) = b_self.trunk_dim + 4 * b_self.contraction_dim
    /\ b_pc \in {"add", "done"} =>
          /\ b_sliced.ok
          /\ Len(b_sliced.ch) = 4 * b_self.contraction_dim
          /\ Len(b_sliced.ch) = b_self.out_in
          /\ b_h.ok
          /\ b_h.b = b_x.b
          /\ Len(b_h.ch) = b_self.trunk_dim
          /\ Len(b_h.ch) = Len(b_x.ch)
          /\ Len(b_h.pos) = Len(b_x.pos)

\* A whole block run with trunk_dim # contraction_dim on more than one position.
C9_Witness ==
    /\ b_pc = "done"
    /\ b_h.ok
    /\ b_self.trunk_dim # b_self.contraction_dim
    /\ Len(b_x.pos) >= 2

====
